---- MODULE Spec2Model ----
(***************************************************************************)
(* Model of the log ingestion and dispatch pipeline of the pganalyze       *)
(* collector: input/system/logs/send.go, AnalyzeInGroupsAndSend.           *)
(*                                                                         *)
(* One invocation is modelled as a sequential process whose position is    *)
(* pc.  Every loop of the function is one action; every call of a          *)
(* collaborator (temp file allocation, file write, analyzer, grant fetch,  *)
(* upload, channel send) draws its outcome from the outcomes that          *)
(* collaborator can produce.  Content is modelled as a sequence of bytes   *)
(* (one-character strings), time in whole seconds.                         *)
(***************************************************************************)
EXTENDS Integers, Sequences, FiniteSets, TLC

VARIABLES
    pc,                \* position of the invocation in AnalyzeInGroupsAndSend
    now,               \* send.go:23  now = time.Now()
    logLines,          \* parameter logLines (never written by the function)
    opts,              \* parameter globalCollectionOpts (DebugLogs, TestRun)
    stitchedLogLines,  \* send.go:19
    readyLogLines,     \* send.go:17
    tooFreshLogLines,  \* send.go:18
    tmpFile,           \* logFile.TmpFile: [state, content]
    writeFailedAt,     \* 0, or the index of the ready line whose write failed
    analyzerCalls,     \* the calls of AnalyzeBackendLogLines, in order
    logFileLogLines,   \* logFile.LogLines
    querySamples,      \* logState.QuerySamples
    logStateLogFiles,  \* logState.LogFiles (sequence of attached files)
    testIdx,           \* position of the test-mode scan over logFile.LogLines
    chan,              \* logTestSucceeded: [cap, len, recvLeft, sent]
    grant,             \* the grant returned by grant.GetLogsGrant
    uploadArgs,        \* the arguments of the calls of output.UploadAndSendLogs
    effects,           \* collaborator calls made by this invocation, in order
    outcome,           \* which return statement was taken
    result             \* the returned backlog

vars == <<pc, now, logLines, opts, stitchedLogLines, readyLogLines,
          tooFreshLogLines, tmpFile, writeFailedAt, analyzerCalls,
          logFileLogLines, querySamples, logStateLogFiles, testIdx, chan,
          grant, uploadArgs, effects, outcome, result>>

(***************************************************************************)
(* Bounds of the model.                                                    *)
(***************************************************************************)
MaxLen == 3        \* longest input sequence
MaxChanCap == 1    \* largest capacity of logTestSucceeded
MaxRecv == 1       \* most values the test harness takes from the channel
TickMaxLen == 2    \* longest input of a tick when ticks follow each other
MaxArrivalTicks == 1   \* resubmissions at which new lines are observed

(***************************************************************************)
(* Program constants and value sets.                                       *)
(***************************************************************************)
ReadyAfter == 3    \* send.go:39  3*time.Second

UNKNOWN == "UNKNOWN"                 \* LogLineInformation_UNKNOWN
ERROR == "ERROR"                     \* a classified log level
NoClassification == "NONE"
PGA_COLLECTOR_IDENTIFY == "PGA_COLLECTOR_IDENTIFY"
SectionName == "s1"                  \* server.Config.SectionName
OtherSection == "s2"

LogLevels == {UNKNOWN, ERROR}
BackendPids == {0, 1}
Now0 == 10
Ages == {ReadyAfter, ReadyAfter + 1}

NoDetails == [k \in {} |-> ""]

\* The bytes of an input line.  The pipeline never looks into a content: it
\* appends contents, takes their lengths and writes them to the store.  Each
\* kind of line carries bytes of its own, of lengths 1 and 2, so that the
\* origin of every byte of a stitched or joined content can be told.
ContentOf(level, pid) ==
    CASE level = UNKNOWN /\ pid = 0 -> <<"f">>
      [] level = UNKNOWN /\ pid # 0 -> <<"d", "e">>
      [] level # UNKNOWN /\ pid = 0 -> <<"a", "b">>
      [] level # UNKNOWN /\ pid # 0 -> <<"c">>

\* state.LogLine as it arrives from the log source: offsets zero, not classified
InputLines ==
    { [Content |-> ContentOf(lv, p), LogLevel |-> lv, BackendPid |-> p,
       CollectedAt |-> Now0 - a,
       ByteStart |-> 0, ByteContentStart |-> 0, ByteEnd |-> 0,
       Classification |-> NoClassification, Details |-> NoDetails] :
      lv \in LogLevels, p \in BackendPids, a \in Ages }

SeqsUpTo(S, n) == UNION { [1..k -> S] : k \in 0..n }

(***************************************************************************)
(* Stitcher, send.go:27-33.                                                *)
(***************************************************************************)
\* send.go:28, negated: the line has neither a level nor a backend pid
IsFragment(logLine) ==
    logLine.LogLevel = UNKNOWN /\ logLine.BackendPid = 0

\* stitching without a separator
NoSeparator == <<>>

\* send.go:31  the separator put between a line and a fragment
StitchSeparator == <<" ">>

\* send.go:28-32  one iteration of the stitching loop
StitchStep(stitched, logLine) ==
    IF ~IsFragment(logLine)
    THEN Append(stitched, logLine)
    ELSE IF Len(stitched) > 0
         THEN [stitched EXCEPT ![Len(stitched)].Content =
                   @ \o StitchSeparator \o logLine.Content]
         ELSE stitched

RECURSIVE StitchFrom(_, _, _)
StitchFrom(lines, i, stitched) ==
    IF i > Len(lines) THEN stitched
    ELSE StitchFrom(lines, i + 1, StitchStep(stitched, lines[i]))

\* send.go:27-33  the stitching loop
StitchLines(lines) == StitchFrom(lines, 1, <<>>)

(***************************************************************************)
(* Readiness windower, send.go:35-48.                                      *)
(***************************************************************************)
\* a window that lets a line through at exactly 3 seconds
IsReadyInclusive(logLine, t) == t - logLine.CollectedAt >= ReadyAfter

\* a window twice as long
IsReadyLater(logLine, t) == t - logLine.CollectedAt > 2 * ReadyAfter

\* send.go:39  now.Sub(logLine.CollectedAt) > 3*time.Second
IsReady(logLine, t) == t - logLine.CollectedAt > ReadyAfter

\* send.go:40
ReadyOf(stitched, t) == SelectSeq(stitched, LAMBDA l : IsReady(l, t))

\* send.go:42
TooFreshOf(stitched, t) == SelectSeq(stitched, LAMBDA l : ~IsReady(l, t))

(***************************************************************************)
(* Packager, send.go:62-74.                                                *)
(***************************************************************************)
\* offsets with an exclusive end
PackLineExclusiveEnd(logLine, currentByteStart) ==
    [logLine EXCEPT !.ByteStart = currentByteStart,
                    !.ByteContentStart = currentByteStart,
                    !.ByteEnd = currentByteStart + Len(logLine.Content)]

\* send.go:69-71  the offsets of a line written at currentByteStart
PackLine(logLine, currentByteStart) ==
    [logLine EXCEPT !.ByteStart = currentByteStart,
                    !.ByteContentStart = currentByteStart,
                    !.ByteEnd = currentByteStart + Len(logLine.Content) - 1]

\* send.go:73  currentByteStart += int64(len(logLine.Content))
NextByteStart(logLine, currentByteStart) ==
    currentByteStart + Len(logLine.Content)

\* send.go:64  the numbers of bytes a failing WriteString of this content
\* can have put into the file before its error (the code discards n)
PartialWrites(content) == { n \in 0..Len(content) : n < Len(content) \/ n = 0 }

\* the choices of n for a write loop in which the write of line failAt fails
PartialsAt(ready, failAt) ==
    IF failAt = 0 THEN {0} ELSE PartialWrites(ready[failAt].Content)

\* a write loop that goes on with the next line after a failed write
RECURSIVE WriteFromSkipFailed(_, _, _, _, _, _)
WriteFromSkipFailed(ready, i, currentByteStart, content, failAt, partial) ==
    IF i > Len(ready)
    THEN [lines |-> ready, content |-> content]
    ELSE IF i = failAt
    THEN WriteFromSkipFailed(ready, i + 1, currentByteStart + partial,
                             content \o SubSeq(ready[i].Content, 1, partial),
                             failAt, partial)
    ELSE WriteFromSkipFailed(
             [ready EXCEPT ![i] = PackLine(ready[i], currentByteStart)],
             i + 1,
             NextByteStart(ready[i], currentByteStart),
             content \o ready[i].Content,
             failAt, partial)

\* send.go:63-74  the write loop from line i on; failAt = 0 when no write
\* fails, else the index of the line whose WriteString returns an error
\* after it has put the first partial bytes of the line into the file
RECURSIVE WriteFrom(_, _, _, _, _, _)
WriteFrom(ready, i, currentByteStart, content, failAt, partial) ==
    IF i > Len(ready)
    THEN [lines |-> ready, content |-> content]
    ELSE IF i = failAt
    THEN [lines |-> ready,
          content |-> content \o SubSeq(ready[i].Content, 1, partial)]
    ELSE WriteFrom([ready EXCEPT ![i] = PackLine(ready[i], currentByteStart)],
                   i + 1,
                   NextByteStart(ready[i], currentByteStart),
                   content \o ready[i].Content,
                   failAt, partial)

\* send.go:62-74
WriteLines(ready, failAt, partial) ==
    WriteFrom(ready, 1, 0, <<>>, failAt, partial)

(***************************************************************************)
(* Backend grouper and joiner, send.go:78-93.                              *)
(***************************************************************************)
\* grouping that puts every line under one key
GroupKeyShared(logLine) == 0

\* send.go:80-82  the key of the group a line is put in
GroupKey(logLine) == logLine.BackendPid

\* send.go:80-82  backendLogLines[pid]
GroupOf(ready, pid) == SelectSeq(ready, LAMBDA l : GroupKey(l) = pid)

\* the keys of backendLogLines
GroupKeys(ready) == { GroupKey(ready[i]) : i \in 1..Len(ready) }

\* a joining step that keeps a continuation with no line before it
JoinStepKeepLeading(analyzable, logLine) ==
    IF logLine.LogLevel # UNKNOWN \/ Len(analyzable) = 0
    THEN Append(analyzable, logLine)
    ELSE [analyzable EXCEPT
             ![Len(analyzable)].Content = @ \o logLine.Content,
             ![Len(analyzable)].ByteEnd = @ + Len(logLine.Content)]

\* a joining step that leaves ByteEnd as the Packager set it
JoinStepFixedEnd(analyzable, logLine) ==
    IF logLine.LogLevel # UNKNOWN
    THEN Append(analyzable, logLine)
    ELSE IF Len(analyzable) > 0
         THEN [analyzable EXCEPT
                  ![Len(analyzable)].Content = @ \o logLine.Content]
         ELSE analyzable

\* send.go:87-92  one iteration of the joining loop
JoinStep(analyzable, logLine) ==
    IF logLine.LogLevel # UNKNOWN
    THEN Append(analyzable, logLine)
    ELSE IF Len(analyzable) > 0
         THEN [analyzable EXCEPT
                  ![Len(analyzable)].Content = @ \o logLine.Content,
                  ![Len(analyzable)].ByteEnd = @ + Len(logLine.Content)]
         ELSE analyzable

RECURSIVE JoinFrom(_, _, _)
JoinFrom(lines, i, analyzable) ==
    IF i > Len(lines) THEN analyzable
    ELSE JoinFrom(lines, i + 1, JoinStep(analyzable, lines[i]))

\* send.go:85-93  analyzableLogLines of one backend
JoinLines(lines) == JoinFrom(lines, 1, <<>>)

(***************************************************************************)
(* Analyzer (AnalyzeBackendLogLines), a collaborator outside send.go.      *)
(* Its contract: it returns output lines, each with a Classification and   *)
(* Details, and query samples.  The behaviours modelled:                   *)
(*   echo      the input lines unchanged, no sample                        *)
(*   drop      no line, no sample                                          *)
(*   sample    no line, one sample for a non-empty input                   *)
(*   identify  every input line classified as an identity marker, of this  *)
(*             server's section when its content starts with "a", of       *)
(*             another section otherwise                                   *)
(***************************************************************************)
AnalyzerKinds == {"echo", "drop", "sample", "identify"}

SectionOf(content) ==
    IF Len(content) > 0 /\ content[1] = "a" THEN SectionName ELSE OtherSection

Classify(lines) ==
    [i \in 1..Len(lines) |->
        [lines[i] EXCEPT !.Classification = PGA_COLLECTOR_IDENTIFY,
                         !.Details = [k \in {"config_section"} |->
                                         SectionOf(lines[i].Content)]]]

AnalyzeBackendLogLines(kind, lines) ==
    CASE kind = "echo"     -> [out |-> lines, samples |-> <<>>]
      [] kind = "drop"     -> [out |-> <<>>, samples |-> <<>>]
      [] kind = "sample"   -> [out |-> <<>>,
                               samples |-> IF Len(lines) > 0 THEN <<"sample">> ELSE <<>>]
      [] kind = "identify" -> [out |-> Classify(lines), samples |-> <<>>]

\* the orders in which a Go map with these keys can be iterated (send.go:84)
Orders(keys) ==
    { o \in [1..Cardinality(keys) -> keys] :
        \A i, j \in 1..Cardinality(keys) : i # j => o[i] # o[j] }

\* send.go:84-102  the analysis loop over the groups order[i..], given the
\* calls, output lines and samples accumulated so far
RECURSIVE AnalyzeFrom(_, _, _, _, _)
AnalyzeFrom(ready, order, i, kind, acc) ==
    IF i > Len(order) THEN acc
    ELSE LET analyzable == JoinLines(GroupOf(ready, order[i]))
             res == AnalyzeBackendLogLines(kind, analyzable)
         IN AnalyzeFrom(ready, order, i + 1, kind,
                [calls   |-> Append(acc.calls, [pid |-> order[i], lines |-> analyzable]),
                 out     |-> acc.out \o res.out,
                 samples |-> acc.samples \o res.samples])

\* send.go:78-102
AnalyzeInGroups(ready, order, kind) ==
    AnalyzeFrom(ready, order, 1, kind,
                [calls |-> <<>>, out |-> <<>>, samples |-> <<>>])

(***************************************************************************)
(* Collaborators of the dispatcher.                                        *)
(***************************************************************************)
\* state.LogState.Cleanup: releases the temp file of every LogFile attached
\* to logState at the moment it is called
Cleanup(files, tmp) ==
    IF Len(files) > 0 /\ tmp.state = "open"
    THEN [tmp EXCEPT !.state = "removed"]
    ELSE tmp

\* Details[key], nil when the key is absent
DetailsGet(details, key) ==
    IF key \in DOMAIN details THEN details[key] ELSE "nil"

\* send.go:122-123
IsIdentifyMatch(logLine) ==
    /\ logLine.Classification = PGA_COLLECTOR_IDENTIFY
    /\ DetailsGet(logLine.Details, "config_section") = SectionName

\* the indices from i on at which the test-mode scan sends
MatchesFrom(lines, i) ==
    { j \in i..Len(lines) : IsIdentifyMatch(lines[j]) }

Min(S) == CHOOSE x \in S : \A y \in S : x <= y

\* a send on logTestSucceeded completes when a receiver is waiting or a
\* buffer slot is free
CanSend(c) == c.recvLeft > 0 \/ c.len < c.cap

\* the channel after a completed send: the value takes a free buffer slot,
\* else it is handed to the waiting receiver
AfterSend(c) ==
    IF c.len < c.cap
    THEN [c EXCEPT !.len = @ + 1, !.sent = @ + 1]
    ELSE [c EXCEPT !.recvLeft = @ - 1, !.sent = @ + 1]

(***************************************************************************)
(* The backlog each return statement hands back.                           *)
(***************************************************************************)
\* a retry that hands back the lines as processed so far
RetryProcessed == readyLogLines \o tooFreshLogLines

\* send.go:57, 135, 148  return logLines
RetryBacklog == logLines

\* a drop that hands back nothing
DropEverything == <<>>

\* a drop that hands back every stitched line
DropNothing == stitchedLogLines

\* send.go:47, 107, 117, 128, 141, 152  return tooFreshLogLines
DropBacklog == tooFreshLogLines

\* the early return tested on the input instead of the ready lines
NoneReadyInput == Len(logLines) = 0

\* send.go:46  len(readyLogLines) == 0
NoneReady == Len(readyLogLines) = 0

\* the skip tested on the output lines alone
NothingProducedLinesOnly == Len(logFileLogLines) = 0

\* send.go:105
NothingProduced == Len(logFileLogLines) = 0 /\ Len(querySamples) = 0

(***************************************************************************)
(* Init: the state on entry of AnalyzeInGroupsAndSend.                     *)
(***************************************************************************)
\* logTestSucceeded as the test-mode scan finds it: its capacity (all slots
\* free) and the number of values the test harness is going to take from it
Channels ==
    { [cap |-> c, len |-> 0, recvLeft |-> r, sent |-> 0] :
        c \in 0..MaxChanCap, r \in 0..MaxRecv }

\* send.go:131  the local variable grant before the fetch has assigned it
NoGrant == [fetched |-> FALSE, Valid |-> FALSE, issuedAt |-> 0]

\* state.go:150  server.Grant: a valid grant the server context holds from
\* before this invocation
ServerGrant == [fetched |-> TRUE, Valid |-> TRUE, issuedAt |-> Now0 - 1]

\* the channel before the function has touched it
Untouched == [cap |-> 0, len |-> 0, recvLeft |-> 0, sent |-> 0]

Init ==
    /\ pc = "stitch"
    /\ now = Now0
    /\ logLines \in SeqsUpTo(InputLines, MaxLen)
    /\ opts \in [DebugLogs : BOOLEAN, TestRun : BOOLEAN]
    /\ chan = Untouched
    /\ stitchedLogLines = <<>>
    /\ readyLogLines = <<>>
    /\ tooFreshLogLines = <<>>
    /\ tmpFile = [state |-> "none", content |-> <<>>]
    /\ writeFailedAt = 0
    /\ analyzerCalls = <<>>
    /\ logFileLogLines = <<>>
    /\ querySamples = <<>>
    /\ logStateLogFiles = <<>>
    /\ testIdx = 0
    /\ grant = NoGrant
    /\ uploadArgs = <<>>
    /\ effects = <<>>
    /\ outcome = "none"
    /\ result = <<>>

(***************************************************************************)
(* Actions.                                                                *)
(***************************************************************************)
\* send.go:27-33
Stitch ==
    /\ pc = "stitch"
    /\ stitchedLogLines' = StitchLines(logLines)
    /\ pc' = "window"
    /\ UNCHANGED <<now, logLines, opts, readyLogLines, tooFreshLogLines,
                   tmpFile, writeFailedAt, analyzerCalls, logFileLogLines,
                   querySamples, logStateLogFiles, testIdx, chan, grant,
                   uploadArgs, effects, outcome, result>>

\* send.go:35-48
Window ==
    /\ pc = "window"
    /\ readyLogLines' = ReadyOf(stitchedLogLines, now)
    /\ tooFreshLogLines' = TooFreshOf(stitchedLogLines, now)
    /\ UNCHANGED <<now, logLines, opts, stitchedLogLines, tmpFile,
                   writeFailedAt, analyzerCalls, logFileLogLines,
                   querySamples, logStateLogFiles, testIdx, chan, grant,
                   uploadArgs, effects>>
    /\ IF NoneReady'
       THEN /\ pc' = "returned"
            /\ outcome' = "no_ready"
            /\ result' = DropBacklog'
       ELSE /\ pc' = "alloc"
            /\ UNCHANGED <<outcome, result>>

\* send.go:51-58, ioutil.TempFile succeeds
AllocTempFile ==
    /\ pc = "alloc"
    /\ tmpFile' = [state |-> "open", content |-> <<>>]
    /\ effects' = Append(effects, "TempFile")
    /\ pc' = "write"
    /\ UNCHANGED <<now, logLines, opts, stitchedLogLines, readyLogLines,
                   tooFreshLogLines, writeFailedAt, analyzerCalls,
                   logFileLogLines, querySamples, logStateLogFiles, testIdx,
                   chan, grant, uploadArgs, outcome, result>>

\* send.go:51-58, ioutil.TempFile returns an error
AllocTempFileFails ==
    /\ pc = "alloc"
    /\ effects' = Append(effects, "TempFile")
    /\ pc' = "returned"
    /\ outcome' = "alloc_failed"
    /\ result' = RetryBacklog
    /\ UNCHANGED <<now, logLines, opts, stitchedLogLines, readyLogLines,
                   tooFreshLogLines, tmpFile, writeFailedAt, analyzerCalls,
                   logFileLogLines, querySamples, logStateLogFiles, testIdx,
                   chan, grant, uploadArgs>>

\* send.go:62-74; failAt = 0: every write succeeds
Write ==
    /\ pc = "write"
    /\ \E failAt \in 0..Len(readyLogLines) :
       \E partial \in PartialsAt(readyLogLines, failAt) :
          LET w == WriteLines(readyLogLines, failAt, partial)
          IN /\ readyLogLines' = w.lines
             /\ tmpFile' = [tmpFile EXCEPT !.content = w.content]
             /\ writeFailedAt' = failAt
    /\ pc' = "analyze"
    /\ UNCHANGED <<now, logLines, opts, stitchedLogLines, tooFreshLogLines,
                   analyzerCalls, logFileLogLines, querySamples,
                   logStateLogFiles, testIdx, chan, grant, uploadArgs,
                   effects, outcome, result>>

\* send.go:76-102
Analyze ==
    /\ pc = "analyze"
    /\ \E order \in Orders(GroupKeys(readyLogLines)), kind \in AnalyzerKinds :
          LET a == AnalyzeInGroups(readyLogLines, order, kind)
          IN /\ analyzerCalls' = a.calls
             /\ logFileLogLines' = a.out
             /\ querySamples' = a.samples
    /\ pc' = "dispatch"
    /\ UNCHANGED <<now, logLines, opts, stitchedLogLines, readyLogLines,
                   tooFreshLogLines, tmpFile, writeFailedAt, logStateLogFiles,
                   testIdx, chan, grant, uploadArgs, effects, outcome, result>>

\* send.go:105-108
NothingToSend ==
    /\ pc = "dispatch"
    /\ NothingProduced
    /\ tmpFile' = Cleanup(logStateLogFiles, tmpFile)
    /\ effects' = Append(effects, "Cleanup")
    /\ pc' = "returned"
    /\ outcome' = "nothing_produced"
    /\ result' = DropBacklog
    /\ UNCHANGED <<now, logLines, opts, stitchedLogLines, readyLogLines,
                   tooFreshLogLines, writeFailedAt, analyzerCalls,
                   logFileLogLines, querySamples, logStateLogFiles, testIdx,
                   chan, grant, uploadArgs>>

\* send.go:110-118
DebugLogs ==
    /\ pc = "dispatch"
    /\ ~NothingProduced
    /\ opts.DebugLogs
    /\ logStateLogFiles' = <<"logFile">>
    /\ tmpFile' = Cleanup(logStateLogFiles', tmpFile)
    /\ effects' = effects \o <<"PrintDebugInfo", "Cleanup">>
    /\ pc' = "returned"
    /\ outcome' = "debug"
    /\ result' = DropBacklog
    /\ UNCHANGED <<now, logLines, opts, stitchedLogLines, readyLogLines,
                   tooFreshLogLines, writeFailedAt, analyzerCalls,
                   logFileLogLines, querySamples, testIdx, chan, grant,
                   uploadArgs>>

\* send.go:110, 120-121: the test-mode scan starts; the state of the channel
\* it is going to send on is the harness's choice.  A scan with no matching
\* line never touches the channel.
TestRun ==
    /\ pc = "dispatch"
    /\ ~NothingProduced
    /\ ~opts.DebugLogs
    /\ opts.TestRun
    /\ logStateLogFiles' = <<"logFile">>
    /\ testIdx' = 1
    /\ IF MatchesFrom(logFileLogLines, 1) = {}
       THEN chan' = Untouched
       ELSE chan' \in Channels
    /\ pc' = "test"
    /\ UNCHANGED <<now, logLines, opts, stitchedLogLines, readyLogLines,
                   tooFreshLogLines, tmpFile, writeFailedAt, analyzerCalls,
                   logFileLogLines, querySamples, grant, uploadArgs,
                   effects, outcome, result>>

\* send.go:121-126: the scan reaches the next matching line and the send
\* logTestSucceeded <- true completes
TestSignal ==
    /\ pc = "test"
    /\ MatchesFrom(logFileLogLines, testIdx) # {}
    /\ CanSend(chan)
    /\ chan' = AfterSend(chan)
    /\ testIdx' = Min(MatchesFrom(logFileLogLines, testIdx)) + 1
    /\ effects' = Append(effects, "send")
    /\ UNCHANGED <<pc, now, logLines, opts, stitchedLogLines, readyLogLines,
                   tooFreshLogLines, tmpFile, writeFailedAt, analyzerCalls,
                   logFileLogLines, querySamples, logStateLogFiles, grant,
                   uploadArgs, outcome, result>>

\* send.go:121-129: no matching line is left
TestDone ==
    /\ pc = "test"
    /\ MatchesFrom(logFileLogLines, testIdx) = {}
    /\ tmpFile' = Cleanup(logStateLogFiles, tmpFile)
    /\ effects' = Append(effects, "Cleanup")
    /\ pc' = "returned"
    /\ outcome' = "test"
    /\ result' = DropBacklog
    /\ UNCHANGED <<now, logLines, opts, stitchedLogLines, readyLogLines,
                   tooFreshLogLines, writeFailedAt, analyzerCalls,
                   logFileLogLines, querySamples, logStateLogFiles, testIdx,
                   chan, grant, uploadArgs>>

\* the test harness takes a value from logTestSucceeded
HarnessReceive ==
    /\ chan.len > 0
    /\ chan.recvLeft > 0
    /\ chan' = [chan EXCEPT !.len = @ - 1, !.recvLeft = @ - 1]
    /\ UNCHANGED <<pc, now, logLines, opts, stitchedLogLines, readyLogLines,
                   tooFreshLogLines, tmpFile, writeFailedAt, analyzerCalls,
                   logFileLogLines, querySamples, logStateLogFiles, testIdx,
                   grant, uploadArgs, effects, outcome, result>>

\* a grant fetch that is not skipped in test mode
NormalModeInTestRun ==
    /\ ~NothingProduced
    /\ ~opts.DebugLogs

\* the guard of send.go:131: neither nothing-produced, debug nor test
NormalMode ==
    /\ ~NothingProduced
    /\ ~opts.DebugLogs
    /\ ~opts.TestRun

\* an upload authorized by the grant the server context holds
UploadGrantOfServer == ServerGrant

\* send.go:144  the grant passed to output.UploadAndSendLogs
UploadGrant == grant

\* send.go:110, 131-136: grant.GetLogsGrant returns an error
GetLogsGrantFails ==
    /\ pc = "dispatch"
    /\ NormalMode
    /\ logStateLogFiles' = <<"logFile">>
    /\ tmpFile' = Cleanup(logStateLogFiles', tmpFile)
    /\ effects' = effects \o <<"GetLogsGrant", "Cleanup">>
    /\ pc' = "returned"
    /\ outcome' = "grant_error"
    /\ result' = RetryBacklog
    /\ UNCHANGED <<now, logLines, opts, stitchedLogLines, readyLogLines,
                   tooFreshLogLines, writeFailedAt, analyzerCalls,
                   logFileLogLines, querySamples, testIdx, chan, grant,
                   uploadArgs>>

\* send.go:110, 131, 138-142: the grant is fetched and is not valid
GetLogsGrantDenied ==
    /\ pc = "dispatch"
    /\ NormalMode
    /\ logStateLogFiles' = <<"logFile">>
    /\ grant' = [fetched |-> TRUE, Valid |-> FALSE, issuedAt |-> now]
    /\ tmpFile' = Cleanup(logStateLogFiles', tmpFile)
    /\ effects' = effects \o <<"GetLogsGrant", "Cleanup">>
    /\ pc' = "returned"
    /\ outcome' = "grant_denied"
    /\ result' = DropBacklog
    /\ UNCHANGED <<now, logLines, opts, stitchedLogLines, readyLogLines,
                   tooFreshLogLines, writeFailedAt, analyzerCalls,
                   logFileLogLines, querySamples, testIdx, chan, uploadArgs>>

\* send.go:110, 131, 138: the grant is fetched and is valid
GetLogsGrant ==
    /\ pc = "dispatch"
    /\ NormalMode
    /\ logStateLogFiles' = <<"logFile">>
    /\ grant' = [fetched |-> TRUE, Valid |-> TRUE, issuedAt |-> now]
    /\ effects' = Append(effects, "GetLogsGrant")
    /\ pc' = "upload"
    /\ UNCHANGED <<now, logLines, opts, stitchedLogLines, readyLogLines,
                   tooFreshLogLines, tmpFile, writeFailedAt, analyzerCalls,
                   logFileLogLines, querySamples, testIdx, chan, uploadArgs,
                   outcome, result>>

\* send.go:144-149: output.UploadAndSendLogs returns an error
UploadFails ==
    /\ pc = "upload"
    /\ uploadArgs' = Append(uploadArgs, [grant |-> UploadGrant, lines |-> logFileLogLines,
                                         samples |-> querySamples])
    /\ tmpFile' = Cleanup(logStateLogFiles, tmpFile)
    /\ effects' = effects \o <<"UploadAndSendLogs", "Cleanup">>
    /\ pc' = "returned"
    /\ outcome' = "upload_error"
    /\ result' = RetryBacklog
    /\ UNCHANGED <<now, logLines, opts, stitchedLogLines, readyLogLines,
                   tooFreshLogLines, writeFailedAt, analyzerCalls,
                   logFileLogLines, querySamples, logStateLogFiles, testIdx,
                   chan, grant>>

\* send.go:144, 151-152: output.UploadAndSendLogs succeeds
Upload ==
    /\ pc = "upload"
    /\ uploadArgs' = Append(uploadArgs, [grant |-> UploadGrant, lines |-> logFileLogLines,
                                         samples |-> querySamples])
    /\ tmpFile' = Cleanup(logStateLogFiles, tmpFile)
    /\ effects' = effects \o <<"UploadAndSendLogs", "Cleanup">>
    /\ pc' = "returned"
    /\ outcome' = "upload_ok"
    /\ result' = DropBacklog
    /\ UNCHANGED <<now, logLines, opts, stitchedLogLines, readyLogLines,
                   tooFreshLogLines, writeFailedAt, analyzerCalls,
                   logFileLogLines, querySamples, logStateLogFiles, testIdx,
                   chan, grant>>

\* the steps of the invocation itself
Invocation ==
    \/ Stitch
    \/ Window
    \/ AllocTempFile
    \/ AllocTempFileFails
    \/ Write
    \/ Analyze
    \/ NothingToSend
    \/ DebugLogs
    \/ TestRun
    \/ TestSignal
    \/ TestDone
    \/ GetLogsGrantFails
    \/ GetLogsGrantDenied
    \/ GetLogsGrant
    \/ UploadFails
    \/ Upload

Next == Invocation \/ HarnessReceive

Spec == Init /\ [][Next]_vars

(***************************************************************************)
(* Ticks: the caller invokes the function once per tick in normal mode and *)
(* resubmits the returned backlog followed by the lines observed since.    *)
(* New lines are observed during the first MaxArrivalTicks resubmissions;  *)
(* the clock of the model stops at MaxNow, when every line observed is     *)
(* older than the window.                                                  *)
(***************************************************************************)
\* one tick follows the other after one second
LastArrival == Now0 + MaxArrivalTicks

MaxNow == LastArrival + ReadyAfter + 1

\* the lines the parser can hand over at time t: collected at t
NewLinesAt(t) ==
    { [Content |-> ContentOf(lv, p), LogLevel |-> lv, BackendPid |-> p,
       CollectedAt |-> t, ByteStart |-> 0, ByteContentStart |-> 0,
       ByteEnd |-> 0, Classification |-> NoClassification,
       Details |-> NoDetails] : lv \in LogLevels, p \in BackendPids }

\* the time of the tick after the one at t
NextTick(t) == IF t < MaxNow THEN t + 1 ELSE t

TickInit ==
    /\ Init
    /\ opts = [DebugLogs |-> FALSE, TestRun |-> FALSE]
    /\ Len(logLines) <= TickMaxLen

\* the caller starts the next tick: the input is the returned backlog
\* followed by the new lines, and every local of the function is fresh
Resubmit ==
    /\ pc = "returned"
    /\ now' = NextTick(now)
    /\ \E new \in SeqsUpTo(NewLinesAt(now'), TickMaxLen - Len(result)) :
          /\ (now' > LastArrival \/ now' = now) => new = <<>>
          /\ logLines' = result \o new
    /\ pc' = "stitch"
    /\ stitchedLogLines' = <<>>
    /\ readyLogLines' = <<>>
    /\ tooFreshLogLines' = <<>>
    /\ tmpFile' = [state |-> "none", content |-> <<>>]
    /\ writeFailedAt' = 0
    /\ analyzerCalls' = <<>>
    /\ logFileLogLines' = <<>>
    /\ querySamples' = <<>>
    /\ logStateLogFiles' = <<>>
    /\ grant' = NoGrant
    /\ uploadArgs' = <<>>
    /\ effects' = <<>>
    /\ outcome' = "none"
    /\ result' = <<>>
    /\ UNCHANGED <<opts, testIdx, chan>>

\* the steps of a normal-mode invocation
NormalInvocation ==
    \/ Stitch
    \/ Window
    \/ AllocTempFile
    \/ AllocTempFileFails
    \/ Write
    \/ Analyze
    \/ NothingToSend
    \/ GetLogsGrantFails
    \/ GetLogsGrantDenied
    \/ GetLogsGrant
    \/ UploadFails
    \/ Upload

TickNext == NormalInvocation \/ Resubmit

\* ticks go on, and allocation, grant fetch and upload do not fail for ever
TickSpec ==
    /\ TickInit
    /\ [][TickNext]_vars
    /\ WF_vars(TickNext)
    /\ SF_vars(AllocTempFile)
    /\ SF_vars(GetLogsGrant)
    /\ SF_vars(Upload)

(***************************************************************************)
(* Vocabulary of the properties.                                           *)
(***************************************************************************)
Returned == pc = "returned"

\* the age of a line at this invocation
Age(logLine) == now - logLine.CollectedAt

\* the range of a sequence
Range(seq) == { seq[i] : i \in 1..Len(seq) }

\* the input holds a ready line, a fragment and a too-fresh line
MixedInput ==
    /\ Len(readyLogLines) > 0
    /\ Len(tooFreshLogLines) > 0
    /\ \E i \in 1..Len(logLines) : IsFragment(logLines[i])

(***************************************************************************)
(* C1  Full retry: when the temp file cannot be allocated, the grant fetch *)
(* returns an error or the upload returns an error, the returned backlog   *)
(* is the input sequence itself: same lines, same order, same contents.    *)
(***************************************************************************)
C1_FullRetry ==
    (Returned /\ outcome \in {"alloc_failed", "grant_error", "upload_error"})
        => result = logLines

\* an upload error on an input with a ready line, a stitched fragment and a
\* too-fresh line
C1_Witness ==
    /\ Returned
    /\ outcome = "upload_error"
    /\ MixedInput
    /\ stitchedLogLines # logLines

(***************************************************************************)
(* C2  Drop on denied grant: when the grant is fetched and is not valid,   *)
(* the returned backlog is exactly the too-fresh stitched lines in order,  *)
(* it holds no ready line, and the upload is not invoked.                  *)
(***************************************************************************)
C2_DropOnDenied ==
    (Returned /\ grant.fetched /\ ~grant.Valid)
        => /\ result = SelectSeq(stitchedLogLines, LAMBDA l : Age(l) <= ReadyAfter)
           /\ \A i \in 1..Len(result) : Age(result[i]) <= ReadyAfter
           /\ uploadArgs = <<>>
           /\ "UploadAndSendLogs" \notin Range(effects)

\* a denied grant on an input with ready and too-fresh lines
C2_Witness ==
    /\ Returned
    /\ grant.fetched
    /\ ~grant.Valid
    /\ Len(readyLogLines) > 0
    /\ Len(tooFreshLogLines) > 0

(***************************************************************************)
(* C3  Resource release on every branch: whenever the function returns     *)
(* after the temp file was allocated, the temp file has been released.     *)
(***************************************************************************)
C3_ReleasedOnReturn ==
    (Returned /\ tmpFile.state # "none") => tmpFile.state = "removed"

\* the same, for every return but the nothing-produced one
C3_ReleasedUnlessNothingProduced ==
    (Returned /\ tmpFile.state # "none" /\ outcome # "nothing_produced")
        => tmpFile.state = "removed"

(***************************************************************************)
(* C4  Every invocation terminates: until it has returned, the invocation  *)
(* (or the harness it waits for) can always take a step; in particular the *)
(* test-mode send never blocks for good.                                   *)
(***************************************************************************)
C4_NeverBlocks == Returned \/ ENABLED Next

\* the state in which the send blocks for good: a matching line, no free
\* slot, no receiver
C4_Blocked ==
    /\ pc = "test"
    /\ MatchesFrom(logFileLogLines, testIdx) # {}
    /\ ~CanSend(chan)

(***************************************************************************)
(* The stitched form of an input line, stated from the input alone: the    *)
(* line with the fragments that directly follow it appended, each after a  *)
(* single space.                                                           *)
(***************************************************************************)
\* the last index of the run of fragments that directly follows line i
RunEnd(lines, i) ==
    CHOOSE j \in i..Len(lines) :
        /\ \A k \in (i + 1)..j : IsFragment(lines[k])
        /\ (j < Len(lines) => ~IsFragment(lines[j + 1]))

RECURSIVE ContentThrough(_, _, _)
ContentThrough(lines, i, j) ==
    IF j <= i THEN lines[i].Content
    ELSE ContentThrough(lines, i, j - 1) \o <<" ">> \o lines[j].Content

StitchedForm(lines, i) ==
    [lines[i] EXCEPT !.Content = ContentThrough(lines, i, RunEnd(lines, i))]

\* the indices in S in increasing order
RECURSIVE Ascending(_)
Ascending(S) ==
    IF S = {} THEN <<>>
    ELSE LET m == CHOOSE x \in S : \A y \in S : x <= y
         IN <<m>> \o Ascending(S \ {m})

NonFragments(lines) == { i \in 1..Len(lines) : ~IsFragment(lines[i]) }

FreshNonFragments(lines) ==
    { i \in NonFragments(lines) : Age(lines[i]) <= ReadyAfter }

StitchedForms(lines, S) ==
    LET idx == Ascending(S)
    IN [k \in 1..Len(idx) |-> StitchedForm(lines, idx[k])]

\* the contents of the lines lines[1..n], one after the other
RECURSIVE ContentsOf(_, _)
ContentsOf(lines, n) ==
    IF n = 0 THEN <<>> ELSE ContentsOf(lines, n - 1) \o lines[n].Content

\* the number of ready lines written to the store
Written ==
    IF writeFailedAt = 0 THEN Len(readyLogLines) ELSE writeFailedAt - 1

\* the store holds the contents of the lines written in full, one after
\* the other, followed after a failed write by the bytes of the failing
\* line that reached the file: fewer than the whole line
StoreHolds(lines) ==
    IF writeFailedAt = 0
    THEN tmpFile.content = ContentsOf(lines, Len(lines))
    ELSE \E n \in 0..Len(lines[writeFailedAt].Content) :
            /\ (n < Len(lines[writeFailedAt].Content) \/ n = 0)
            /\ tmpFile.content =
                   ContentsOf(lines, writeFailedAt - 1)
                       \o SubSeq(lines[writeFailedAt].Content, 1, n)

\* the write loop has run
Packaged ==
    /\ pc \in {"analyze", "dispatch", "test", "upload", "returned"}
    /\ tmpFile.state # "none"

FullRetry == outcome \in {"alloc_failed", "grant_error", "upload_error"}

\* no line younger than the window reached the store, the Analyzer or the upload
OnlyOldLinesProcessed ==
    /\ \A i \in 1..Len(readyLogLines) : Age(readyLogLines[i]) > ReadyAfter
    /\ \A c \in 1..Len(analyzerCalls) :
          \A i \in 1..Len(analyzerCalls[c].lines) :
              Age(analyzerCalls[c].lines[i]) > ReadyAfter
    /\ \A u \in 1..Len(uploadArgs) :
          \A i \in 1..Len(uploadArgs[u].lines) :
              Age(uploadArgs[u].lines[i]) > ReadyAfter
    /\ (Packaged => StoreHolds(readyLogLines))
    /\ (~Packaged => tmpFile.content = <<>>)

(***************************************************************************)
(* C5  Windowing, as claimed: a non-fragment input line of age <= 3 s is   *)
(* never processed and is in the returned backlog with every field,        *)
(* Content included, as it was on input.                                   *)
(***************************************************************************)
C5_FreshUnmodified ==
    /\ OnlyOldLinesProcessed
    /\ Returned =>
          \A i \in FreshNonFragments(logLines) : logLines[i] \in Range(result)

(***************************************************************************)
(* C5  Windowing, amended: a non-fragment input line of age <= 3 s is      *)
(* never processed; on a full retry the returned backlog is the input, and *)
(* on every other return the backlog is exactly the stitched forms of      *)
(* these lines in input order: all fields as on input but Content, which   *)
(* is the input content followed by " " and the content of each fragment   *)
(* that directly follows the line.                                         *)
(***************************************************************************)
C5_FreshKeptStitched ==
    /\ OnlyOldLinesProcessed
    /\ Returned =>
          IF FullRetry
          THEN \A i \in FreshNonFragments(logLines) : result[i] = logLines[i]
          ELSE result = StitchedForms(logLines, FreshNonFragments(logLines))

\* a too-fresh line directly followed by a fragment comes back stitched,
\* next to a ready line that went through the pipeline
C5_Witness ==
    /\ Returned
    /\ ~FullRetry
    /\ Len(readyLogLines) > 0
    /\ \E i \in FreshNonFragments(logLines) :
          /\ i < Len(logLines)
          /\ IsFragment(logLines[i + 1])
          /\ StitchedForm(logLines, i) \in Range(result)

(***************************************************************************)
(* C6  Stitching: the stitched sequence holds exactly the non-fragment     *)
(* lines in input order, each with the fragments between it and the next   *)
(* non-fragment line appended after a single space and every other field   *)
(* unchanged; fragments before the first non-fragment line are dropped.    *)
(***************************************************************************)
C6_Stitching ==
    pc # "stitch"
        => stitchedLogLines = StitchedForms(logLines, NonFragments(logLines))

\* a leading fragment is dropped and a trailing one is appended
C6_Witness ==
    /\ pc = "window"
    /\ Len(logLines) = 3
    /\ IsFragment(logLines[1])
    /\ ~IsFragment(logLines[2])
    /\ IsFragment(logLines[3])
    /\ Len(stitchedLogLines) = 1

(***************************************************************************)
(* C7  Byte-range invariant of the Packager: when no write fails, line i   *)
(* starts at the summed length of the contents before it, ends at start +  *)
(* length - 1, and the store holds its content at exactly that range.      *)
(***************************************************************************)
C7_ByteRanges ==
    (Packaged /\ writeFailedAt = 0) =>
        \A i \in 1..Len(readyLogLines) :
            LET l == readyLogLines[i]
            IN /\ l.ByteStart = Len(ContentsOf(readyLogLines, i - 1))
               /\ l.ByteContentStart = l.ByteStart
               /\ l.ByteEnd = l.ByteStart + Len(l.Content) - 1
               /\ SubSeq(tmpFile.content, l.ByteStart + 1, l.ByteEnd + 1) = l.Content

\* two lines of different lengths, the first one stitched, were written
C7_Witness ==
    /\ pc = "analyze"
    /\ writeFailedAt = 0
    /\ Len(readyLogLines) = 2
    /\ Len(readyLogLines[1].Content) > 2
    /\ Len(readyLogLines[2].Content) = 1

(***************************************************************************)
(* C8  LogLine artifact invariant: with no write failure and an Analyzer   *)
(* that returns its input unchanged, every line handed to dispatch has     *)
(* ByteEnd = ByteStart + length - 1, and of any two lines the later one    *)
(* starts after the end of the earlier one.                                *)
(***************************************************************************)
RECURSIVE CallLines(_, _)
CallLines(calls, n) ==
    IF n = 0 THEN <<>> ELSE CallLines(calls, n - 1) \o calls[n].lines

Analyzed == pc \in {"dispatch", "test", "upload", "returned"} /\ tmpFile.state # "none"

EchoAnalyzer == logFileLogLines = CallLines(analyzerCalls, Len(analyzerCalls))

C8_ArtifactRanges ==
    (Analyzed /\ writeFailedAt = 0 /\ EchoAnalyzer) =>
        /\ \A i \in 1..Len(logFileLogLines) :
              logFileLogLines[i].ByteEnd =
                  logFileLogLines[i].ByteStart + Len(logFileLogLines[i].Content) - 1
        /\ \A i, j \in 1..Len(logFileLogLines) :
              i < j => logFileLogLines[j].ByteStart >= logFileLogLines[i].ByteEnd + 1

\* the part of the invariant the code keeps: the length of each range
C8_RangeLengths ==
    (Analyzed /\ writeFailedAt = 0 /\ EchoAnalyzer) =>
        \A i \in 1..Len(logFileLogLines) :
            logFileLogLines[i].ByteEnd =
                logFileLogLines[i].ByteStart + Len(logFileLogLines[i].Content) - 1

(***************************************************************************)
(* C9  Backend isolation: every line passed to the Analyzer for backend A  *)
(* has BackendPid A and its content is made of the contents of             *)
(* consecutive ready lines of backend A only; no two Analyzer calls are    *)
(* for the same backend.                                                   *)
(***************************************************************************)
\* the ready lines of backend pid, selected by their BackendPid field
LinesOfBackend(pid) ==
    SelectSeq(readyLogLines, LAMBDA l : l.BackendPid = pid)

RECURSIVE RunContent(_, _, _)
RunContent(lines, a, b) ==
    IF b < a THEN <<>> ELSE RunContent(lines, a, b - 1) \o lines[b].Content

IsRunOf(content, lines) ==
    \E a \in 1..Len(lines) : \E b \in a..Len(lines) :
        content = RunContent(lines, a, b)

C9_BackendIsolation ==
    /\ \A c \in 1..Len(analyzerCalls) :
          \A i \in 1..Len(analyzerCalls[c].lines) :
              /\ analyzerCalls[c].lines[i].BackendPid = analyzerCalls[c].pid
              /\ IsRunOf(analyzerCalls[c].lines[i].Content,
                         LinesOfBackend(analyzerCalls[c].pid))
    /\ \A c, d \in 1..Len(analyzerCalls) :
          c # d => analyzerCalls[c].pid # analyzerCalls[d].pid

\* a continuation of backend 1 arrives after a line of backend 0 and is
\* joined to the line of backend 1
C9_Witness ==
    /\ pc = "dispatch"
    /\ Len(readyLogLines) = 3
    /\ readyLogLines[1].BackendPid = 1 /\ readyLogLines[1].LogLevel # UNKNOWN
    /\ readyLogLines[2].BackendPid = 0
    /\ readyLogLines[3].BackendPid = 1 /\ readyLogLines[3].LogLevel = UNKNOWN
    /\ \E c \in 1..Len(analyzerCalls) :
          /\ analyzerCalls[c].pid = 1
          /\ Len(analyzerCalls[c].lines) = 1
          /\ analyzerCalls[c].lines[1].Content =
                 readyLogLines[1].Content \o readyLogLines[3].Content

(***************************************************************************)
(* C10  No ready lines: when no stitched line is older than 3 s, the       *)
(* invocation returns the too-fresh lines and does nothing else: no temp   *)
(* file, no Analyzer call, no grant, no upload, no test signal.            *)
(***************************************************************************)
NoOldLine ==
    \A i \in NonFragments(logLines) : Age(logLines[i]) <= ReadyAfter

C10_NoReadyNoEffect ==
    NoOldLine =>
        /\ pc \in {"stitch", "window", "returned"}
        /\ tmpFile.state = "none"
        /\ analyzerCalls = <<>>
        /\ ~grant.fetched
        /\ uploadArgs = <<>>
        /\ chan.sent = 0
        /\ effects = <<>>
        /\ Returned => /\ outcome = "no_ready"
                       /\ result = StitchedForms(logLines, NonFragments(logLines))

\* two too-fresh lines are handed back at once
C10_Witness ==
    /\ Returned
    /\ NoOldLine
    /\ Len(result) = 2

(***************************************************************************)
(* C11  Test-mode signal is sent once: in one test-mode invocation at most *)
(* one value is put on logTestSucceeded, and exactly one is put when at    *)
(* least one output line is an identity marker of this server's section,   *)
(* however many output lines match.                                        *)
(***************************************************************************)
\* the output lines the test-mode scan sends for
Matches == MatchesFrom(logFileLogLines, 1)

C11_SignalOnce ==
    /\ chan.sent <= 1
    /\ (Returned /\ outcome = "test" /\ Matches # {}) => chan.sent = 1

\* what the scan does: one send for every matching output line
C11_SignalPerMatch ==
    /\ chan.sent <= Cardinality(Matches)
    /\ (Returned /\ outcome = "test") => chan.sent = Cardinality(Matches)

\* two matching lines, two values sent
C11_SentTwice ==
    /\ Returned
    /\ outcome = "test"
    /\ Cardinality(Matches) = 2
    /\ chan.sent = 2

(***************************************************************************)
(* C12  Debug and test modes never contact the network, as claimed: in an  *)
(* invocation with DebugLogs or TestRun set neither the grant fetch nor    *)
(* the upload is invoked, and the returned backlog is the too-fresh lines  *)
(* only.                                                                   *)
(***************************************************************************)
DebugOrTest == opts.DebugLogs \/ opts.TestRun

NoNetwork ==
    /\ ~grant.fetched
    /\ uploadArgs = <<>>
    /\ "GetLogsGrant" \notin Range(effects)
    /\ "UploadAndSendLogs" \notin Range(effects)
    /\ pc # "upload"

C12_NoNetworkDropsReady ==
    DebugOrTest =>
        /\ NoNetwork
        /\ Returned =>
              /\ result = tooFreshLogLines
              /\ \A i \in 1..Len(result) : Age(result[i]) <= ReadyAfter

(***************************************************************************)
(* C12  amended: in an invocation with DebugLogs or TestRun set neither    *)
(* the grant fetch nor the upload is invoked; the returned backlog is the  *)
(* too-fresh lines only, except when the temp file cannot be allocated,    *)
(* where the whole input is returned.                                      *)
(***************************************************************************)
C12_NoNetworkInDebugOrTest ==
    DebugOrTest =>
        /\ NoNetwork
        /\ Returned =>
              IF outcome = "alloc_failed"
              THEN result = logLines
              ELSE /\ result = tooFreshLogLines
                   /\ \A i \in 1..Len(result) : Age(result[i]) <= ReadyAfter

\* a debug or test invocation that had output to send returns the too-fresh
\* line and drops the ready one
C12_Witness ==
    /\ Returned
    /\ outcome \in {"debug", "test"}
    /\ Len(logFileLogLines) > 0
    /\ Len(readyLogLines) > 0
    /\ Len(result) > 0

(***************************************************************************)
(* C14  Dispatcher priority order: with a ready line, one outcome is taken *)
(* per invocation, the first that applies of allocation failure, nothing   *)
(* produced, debug, test, grant error, grant denied, upload error, upload  *)
(* success, and only that outcome's effects happen; when nothing was       *)
(* produced nothing is printed or signalled even in debug or test mode,    *)
(* and with both DebugLogs and TestRun set the debug outcome is taken and  *)
(* no test signal is sent.                                                 *)
(***************************************************************************)
Allocated == tmpFile.state # "none"

Produced == Len(logFileLogLines) > 0 \/ Len(querySamples) > 0

\* the outcomes the priority order allows in the state the invocation ended in
AllowedOutcomes ==
    IF ~Allocated THEN {"alloc_failed"}
    ELSE IF ~Produced THEN {"nothing_produced"}
    ELSE IF opts.DebugLogs THEN {"debug"}
    ELSE IF opts.TestRun THEN {"test"}
    ELSE IF ~grant.fetched THEN {"grant_error"}
    ELSE IF ~grant.Valid THEN {"grant_denied"}
    ELSE {"upload_error", "upload_ok"}

\* n times the effect e
RECURSIVE Times(_, _)
Times(e, n) == IF n = 0 THEN <<>> ELSE Append(Times(e, n - 1), e)

\* the effects of an outcome, in order
EffectsOf(o) ==
    CASE o = "alloc_failed"     -> <<"TempFile">>
      [] o = "nothing_produced" -> <<"TempFile", "Cleanup">>
      [] o = "debug"            -> <<"TempFile", "PrintDebugInfo", "Cleanup">>
      [] o = "test"             -> <<"TempFile">> \o Times("send", chan.sent)
                                       \o <<"Cleanup">>
      [] o \in {"grant_error", "grant_denied"}
                                -> <<"TempFile", "GetLogsGrant", "Cleanup">>
      [] o \in {"upload_error", "upload_ok"}
                                -> <<"TempFile", "GetLogsGrant",
                                     "UploadAndSendLogs", "Cleanup">>

C14_PriorityOrder ==
    /\ (Returned /\ Len(readyLogLines) > 0) =>
          /\ outcome \in AllowedOutcomes
          /\ effects = EffectsOf(outcome)
          /\ (outcome # "test" => chan.sent = 0)
    /\ pc = "test" => (Allocated /\ Produced /\ ~opts.DebugLogs /\ opts.TestRun)
    /\ pc = "upload" =>
          (Allocated /\ Produced /\ ~opts.DebugLogs /\ ~opts.TestRun
              /\ grant.fetched /\ grant.Valid)
    /\ chan.sent > 0 => (Produced /\ ~opts.DebugLogs /\ opts.TestRun)
    /\ "PrintDebugInfo" \in Range(effects) => (Produced /\ opts.DebugLogs)

\* both flags set and a matching identity marker in the output: the debug
\* outcome is taken and nothing is signalled
C14_Witness ==
    /\ Returned
    /\ opts.DebugLogs
    /\ opts.TestRun
    /\ Matches # {}
    /\ outcome = "debug"
    /\ chan.sent = 0

(***************************************************************************)
(* C15  The Packager records offsets of post-joining content: with no      *)
(* write failure, for every line handed to the Analyzer the bytes of the   *)
(* store at [ByteStart, ByteEnd] are exactly that line's joined Content,   *)
(* also when a continuation line is separated from its parent by lines of  *)
(* other backends.                                                         *)
(***************************************************************************)
\* the bytes of the store at [ByteStart, ByteEnd] of a line, as far as the
\* store reaches
StoreBytes(logLine) ==
    SubSeq(tmpFile.content, logLine.ByteStart + 1,
           IF logLine.ByteEnd + 1 <= Len(tmpFile.content)
           THEN logLine.ByteEnd + 1 ELSE Len(tmpFile.content))

C15_JoinedRanges ==
    (Analyzed /\ writeFailedAt = 0) =>
        \A c \in 1..Len(analyzerCalls) :
            \A i \in 1..Len(analyzerCalls[c].lines) :
                StoreBytes(analyzerCalls[c].lines[i]) = analyzerCalls[c].lines[i].Content

\* a joined line of backend 1 whose range covers bytes of backend 0
C15_ForeignBytes ==
    /\ Analyzed
    /\ writeFailedAt = 0
    /\ Len(readyLogLines) = 3
    /\ readyLogLines[1].BackendPid = 1 /\ readyLogLines[1].LogLevel # UNKNOWN
    /\ readyLogLines[2].BackendPid = 0
    /\ readyLogLines[3].BackendPid = 1 /\ readyLogLines[3].LogLevel = UNKNOWN
    /\ \E c \in 1..Len(analyzerCalls) :
          /\ analyzerCalls[c].pid = 1
          /\ analyzerCalls[c].lines[1].Content =
                 readyLogLines[1].Content \o readyLogLines[3].Content
          /\ StoreBytes(analyzerCalls[c].lines[1]) =
                 readyLogLines[1].Content \o readyLogLines[2].Content

(***************************************************************************)
(* C16  Joiner continuation rule: within one backend's ordered group,      *)
(* every line of unknown LogLevel that has a classified line before it is  *)
(* removed as a line of its own and its Content is appended, with no       *)
(* separator, to the nearest classified line before it, whose ByteEnd      *)
(* grows by exactly the continuation's length while ByteStart and          *)
(* ByteContentStart stay as they were; classified lines keep their order.  *)
(***************************************************************************)
Classified(lines) == { i \in 1..Len(lines) : lines[i].LogLevel # UNKNOWN }

\* the last index of the run of unknown-level lines that follows line i
JoinEnd(lines, i) ==
    CHOOSE j \in i..Len(lines) :
        /\ \A k \in (i + 1)..j : lines[k].LogLevel = UNKNOWN
        /\ (j < Len(lines) => lines[j + 1].LogLevel # UNKNOWN)

\* the classified line i with its continuations appended
JoinedForm(lines, i) ==
    [lines[i] EXCEPT
        !.Content = RunContent(lines, i, JoinEnd(lines, i)),
        !.ByteEnd = @ + Len(RunContent(lines, i + 1, JoinEnd(lines, i)))]

JoinedForms(lines) ==
    LET idx == Ascending(Classified(lines))
    IN [k \in 1..Len(idx) |-> JoinedForm(lines, idx[k])]

\* stated where the joiner has just run; analyzerCalls does not change later
C16_Continuations ==
    pc = "dispatch" =>
        \A c \in 1..Len(analyzerCalls) :
            LET group == LinesOfBackend(analyzerCalls[c].pid)
                idx == Ascending(Classified(group))
                joined == analyzerCalls[c].lines
            IN /\ joined = JoinedForms(group)
               /\ \A k \in 1..Len(joined) :
                     /\ joined[k].ByteStart = group[idx[k]].ByteStart
                     /\ joined[k].ByteContentStart = group[idx[k]].ByteContentStart

\* a group of a classified line, its continuation and a second classified
\* line: two lines are passed on, the first one grown by the continuation
C16_Witness ==
    /\ pc = "dispatch"
    /\ writeFailedAt = 0
    /\ \E c \in 1..Len(analyzerCalls) :
          LET group == LinesOfBackend(analyzerCalls[c].pid)
          IN /\ Len(group) = 3
             /\ group[1].LogLevel # UNKNOWN
             /\ group[2].LogLevel = UNKNOWN
             /\ group[3].LogLevel # UNKNOWN
             /\ Len(analyzerCalls[c].lines) = 2
             /\ analyzerCalls[c].lines[1].ByteEnd =
                    group[1].ByteEnd + Len(group[2].Content)
             /\ analyzerCalls[c].lines[2] = group[3]

(***************************************************************************)
(* C17  Partial write failure is degraded continuation: if writing ready   *)
(* line k fails, no later line is written, the lines before k have the     *)
(* offsets of the byte-range invariant, the lines k..N keep the offsets    *)
(* they had on input, and the batch is not aborted: every backend of the   *)
(* N ready lines is joined and analyzed, and the returned backlog is       *)
(* decided by the dispatcher outcome alone.                                *)
(***************************************************************************)
\* the ready lines as the Windower selected them, before the write loop
ReadyOnInput == ReadyOf(stitchedLogLines, now)

SameOffsets(a, b) ==
    /\ a.ByteStart = b.ByteStart
    /\ a.ByteContentStart = b.ByteContentStart
    /\ a.ByteEnd = b.ByteEnd

\* the number of lines passed to the Analyzer
LinesAnalyzed == Len(CallLines(analyzerCalls, Len(analyzerCalls)))

C17_DegradedContinuation ==
    (Packaged /\ writeFailedAt > 0) =>
        /\ Len(readyLogLines) = Len(ReadyOnInput)
        /\ StoreHolds(ReadyOnInput)
        /\ Len(tmpFile.content) <= Len(ContentsOf(ReadyOnInput, writeFailedAt))
        /\ \A i \in 1..(writeFailedAt - 1) :
              LET l == readyLogLines[i]
              IN /\ l.ByteStart = Len(ContentsOf(ReadyOnInput, i - 1))
                 /\ l.ByteContentStart = l.ByteStart
                 /\ l.ByteEnd = l.ByteStart + Len(l.Content) - 1
                 /\ StoreBytes(l) = l.Content
        /\ \A i \in writeFailedAt..Len(readyLogLines) :
              /\ SameOffsets(readyLogLines[i], ReadyOnInput[i])
              /\ readyLogLines[i] = ReadyOnInput[i]
        /\ Analyzed =>
              /\ { analyzerCalls[c].pid : c \in 1..Len(analyzerCalls) }
                     = { ReadyOnInput[i].BackendPid : i \in 1..Len(ReadyOnInput) }
              /\ LinesAnalyzed = Cardinality(Classified(ReadyOnInput))
        /\ Returned =>
              /\ outcome \in AllowedOutcomes
              /\ result = IF FullRetry THEN logLines ELSE tooFreshLogLines

\* the write of the second of three lines failed after a part of the line
\* had reached the store, and all three lines were analyzed and uploaded
C17_Witness ==
    /\ Returned
    /\ outcome = "upload_ok"
    /\ writeFailedAt = 2
    /\ Len(readyLogLines) = 3
    /\ readyLogLines[1].ByteEnd > 0
    /\ Len(tmpFile.content) > Len(readyLogLines[1].Content)
    /\ Len(uploadArgs[1].lines) = 3

(***************************************************************************)
(* C18  Authorization precedes upload: in every invocation the grant is    *)
(* fetched at most once and the upload is invoked at most once, the upload *)
(* is invoked only after a grant fetch of the same invocation returned     *)
(* without error with Valid = true, and the grant passed to the upload is  *)
(* that freshly fetched grant, never server.Grant or an earlier one.       *)
(***************************************************************************)
\* the positions of the effect e in the trace of the invocation
Positions(e) == { i \in 1..Len(effects) : effects[i] = e }

C18_GrantBeforeUpload ==
    /\ Cardinality(Positions("GetLogsGrant")) <= 1
    /\ Cardinality(Positions("UploadAndSendLogs")) <= 1
    /\ Len(uploadArgs) = Cardinality(Positions("UploadAndSendLogs"))
    /\ \A u \in Positions("UploadAndSendLogs") :
          \E g \in Positions("GetLogsGrant") : g < u
    /\ \A u \in 1..Len(uploadArgs) :
          /\ grant.fetched
          /\ grant.Valid
          /\ uploadArgs[u].grant = grant
          /\ uploadArgs[u].grant.issuedAt = now
          /\ uploadArgs[u].grant # ServerGrant
    /\ pc = "upload" => (grant.fetched /\ grant.Valid /\ grant.issuedAt = now)
    /\ (grant.fetched /\ ~grant.Valid) => uploadArgs = <<>>

\* an upload was made with the grant fetched in this invocation
C18_Witness ==
    /\ Returned
    /\ outcome = "upload_ok"
    /\ effects = <<"TempFile", "GetLogsGrant", "UploadAndSendLogs", "Cleanup">>
    /\ uploadArgs[1].grant.issuedAt = now

(***************************************************************************)
(* C19  Leading continuation, as claimed: a ready line of unknown LogLevel *)
(* and non-zero BackendPid that precedes every classified line of its      *)
(* backend is written to the store, is passed to no Analyzer call and      *)
(* appended to no line, and on every outcome but a full retry is absent    *)
(* from the returned backlog.                                              *)
(***************************************************************************)
\* the ready lines of unknown level with no classified line of their
\* backend before them
LeadingUnknown ==
    { i \in 1..Len(readyLogLines) :
        /\ readyLogLines[i].LogLevel = UNKNOWN
        /\ readyLogLines[i].BackendPid # 0
        /\ \A j \in 1..(i - 1) :
              readyLogLines[j].BackendPid = readyLogLines[i].BackendPid
                  => readyLogLines[j].LogLevel = UNKNOWN }

\* the unknown-level lines at the head of a group
Lead(group) ==
    { i \in 1..Len(group) : \A j \in 1..i : group[j].LogLevel = UNKNOWN }

\* the Analyzer receives classified lines only, made of the contents of
\* its backend's lines after the leading unknown-level ones
LeadingNotAnalyzed ==
    \A c \in 1..Len(analyzerCalls) :
        LET group == LinesOfBackend(analyzerCalls[c].pid)
            lines == analyzerCalls[c].lines
        IN /\ \A k \in 1..Len(lines) : lines[k].LogLevel # UNKNOWN
           /\ ContentsOf(lines, Len(lines)) =
                  RunContent(group, Cardinality(Lead(group)) + 1, Len(group))

LeadingNotReturned ==
    (Returned /\ ~FullRetry) =>
        \A i \in LeadingUnknown :
            /\ readyLogLines[i] \notin Range(result)
            /\ ReadyOnInput[i] \notin Range(result)
            /\ \A k \in 1..Len(result) : Age(result[k]) <= ReadyAfter

C19_LeadingDropped ==
    /\ Packaged =>
          \A i \in LeadingUnknown : StoreBytes(readyLogLines[i]) = readyLogLines[i].Content
    /\ LeadingNotAnalyzed
    /\ LeadingNotReturned

(***************************************************************************)
(* C19  amended: such a line is written to the store in full unless the    *)
(* write of it or of an earlier ready line fails (then at most a part of   *)
(* it is in the store), is passed to no Analyzer call and appended to no   *)
(* line, and on every outcome but a full retry is absent from the          *)
(* returned backlog.                                                       *)
(***************************************************************************)
C19_LeadingDroppedIfWritten ==
    /\ Packaged =>
          \A i \in LeadingUnknown :
              IF i <= Written
              THEN StoreBytes(readyLogLines[i]) = readyLogLines[i].Content
              ELSE /\ StoreHolds(ReadyOnInput)
                   /\ Len(tmpFile.content) < Len(ContentsOf(ReadyOnInput, i))
    /\ LeadingNotAnalyzed
    /\ LeadingNotReturned

\* a leading continuation of backend 1 was written, the classified line
\* after it was uploaded alone, and the invocation ended in upload success
\* with an empty backlog
C19_Witness ==
    /\ Returned
    /\ outcome = "upload_ok"
    /\ writeFailedAt = 0
    /\ Len(readyLogLines) = 2
    /\ 1 \in LeadingUnknown
    /\ readyLogLines[2].BackendPid = readyLogLines[1].BackendPid
    /\ readyLogLines[2].LogLevel # UNKNOWN
    /\ Len(tmpFile.content) = Len(readyLogLines[1].Content) + Len(readyLogLines[2].Content)
    /\ Len(uploadArgs[1].lines) = 1
    /\ uploadArgs[1].lines[1].Content = readyLogLines[2].Content
    /\ result = <<>>

(***************************************************************************)
(* C13  At-least-once across ticks: in normal-mode ticks whose input is    *)
(* the previous backlog followed by new lines, a non-fragment input line   *)
(* is absent from the tick's returned backlog only if it was ready and the *)
(* tick ended in upload success, grant denied or nothing produced; a tick  *)
(* ending in grant-fetch failure or upload failure returns the whole       *)
(* input, so the next tick's input starts with all of it: the backlog      *)
(* does not shrink and no line is lost.                                    *)
(***************************************************************************)
\* input line i is in the returned backlog, as it came or in stitched form
InBacklog(i) ==
    \E k \in 1..Len(result) :
        \/ result[k] = logLines[i]
        \/ result[k] = StitchedForm(logLines, i)

DropOutcomes == {"upload_ok", "grant_denied", "nothing_produced"}

AbsentOnlyIfProcessed ==
    Returned =>
        /\ \A i \in NonFragments(logLines) :
              ~InBacklog(i) =>
                  /\ Age(logLines[i]) > ReadyAfter
                  /\ outcome \in DropOutcomes
        /\ outcome \in {"grant_error", "upload_error"} => result = logLines

\* from a failed tick to the next one the input only grows at its end
FailedTickKeepsAll ==
    (pc = "returned" /\ pc' = "stitch"
        /\ outcome \in {"grant_error", "upload_error"})
    => /\ Len(logLines') >= Len(logLines)
       /\ SubSeq(logLines', 1, Len(logLines)) = logLines

C13_AtLeastOnce == []AbsentOnlyIfProcessed /\ [][FailedTickKeepsAll]_vars

\* a ready line that an earlier tick handed back by a retry is uploaded at a
\* later tick and leaves the backlog
C13_Witness ==
    /\ Returned
    /\ now > Now0
    /\ outcome = "upload_ok"
    /\ \E i \in NonFragments(logLines) :
          /\ logLines[i].CollectedAt = Now0 - (ReadyAfter + 1)
          /\ ~InBacklog(i)
          /\ \E u \in 1..Len(uploadArgs[1].lines) :
                uploadArgs[1].lines[u].CollectedAt = logLines[i].CollectedAt

(***************************************************************************)
(* C20  Every line eventually leaves: over normal-mode ticks in which the  *)
(* caller resubmits each returned backlog and time advances, and in which  *)
(* grant fetch and upload eventually succeed, every non-fragment line      *)
(* eventually leaves the backlog; a line handed back by a full retry is    *)
(* ready again at the next tick, as its age only grows, and after a tick   *)
(* ending in upload success the returned backlog holds only lines of age   *)
(* <= 3 s at that tick.                                                    *)
(***************************************************************************)
OldNonFragments(lines) ==
    { i \in NonFragments(lines) : Age(lines[i]) > ReadyAfter }

\* once the window has run, the ready lines are the non-fragment input
\* lines older than 3 s
ReadyWhenOld ==
    pc \notin {"stitch", "window"} =>
        LET idx == Ascending(OldNonFragments(logLines))
        IN /\ Len(readyLogLines) = Len(idx)
           /\ \A k \in 1..Len(idx) :
                 /\ readyLogLines[k].CollectedAt = logLines[idx[k]].CollectedAt
                 /\ readyLogLines[k].Content = StitchedForm(logLines, idx[k]).Content

\* a line that was ready in a tick ending in a full retry is in the next
\* tick's input, unchanged and at least as old
RetriedStaysReady ==
    (pc = "returned" /\ pc' = "stitch" /\ FullRetry) =>
        /\ now' >= now
        /\ \A i \in 1..Len(result) :
              now - result[i].CollectedAt > ReadyAfter =>
                  /\ logLines'[i] = result[i]
                  /\ now' - logLines'[i].CollectedAt > ReadyAfter

UploadLeavesFresh ==
    (Returned /\ outcome = "upload_ok") =>
        \A k \in 1..Len(result) : Age(result[k]) <= ReadyAfter

\* the caller holds no non-fragment line
BacklogDrained == NonFragments(logLines) = {} /\ result = <<>>

C20_EventuallyLeaves ==
    /\ []ReadyWhenOld
    /\ [][RetriedStaysReady]_vars
    /\ []UploadLeavesFresh
    /\ <>[]BacklogDrained

\* a line that was too fresh at the first tick is uploaded at a later one
\* and the backlog is empty
C20_Witness ==
    /\ Returned
    /\ now > Now0
    /\ outcome = "upload_ok"
    /\ result = <<>>
    /\ \E i \in NonFragments(logLines) :
          logLines[i].CollectedAt = Now0 - ReadyAfter
    /\ \E u \in 1..Len(uploadArgs[1].lines) :
          uploadArgs[1].lines[u].CollectedAt = Now0 - ReadyAfter

====
